---- MODULE Spec2Model ----
(***************************************************************************)
(* The sketch surface of EditPic (src/src/app/page.tsx, component Home):   *)
(* the canvas bitmap, the 2D context's current path, the React state       *)
(* hasSketch / selectedTool / canUndo, the undo history in historyRef and  *)
(* the locals of the drawing effect (drawing, pointer, startPoint,         *)
(* snapshot).                                                              *)
(*                                                                         *)
(* Abstraction of the bitmap: the set of primitives that have been stroked *)
(* onto it ("marks").  Two bitmaps are equal iff the same marks are on     *)
(* them.  The stroke style is fixed (page.tsx:107-112), so it is left out. *)
(*                                                                         *)
(* React: a state setter called with a value different from the current    *)
(* one re-renders the component; the drawing effect has the dependencies   *)
(* [selectedTool, hasSketch] (page.tsx:315), so a change of either runs    *)
(* its cleanup and body again, which declares fresh locals                 *)
(* (page.tsx:137-140).  The re-render is taken as part of the handler      *)
(* that called the setter.                                                 *)
(***************************************************************************)
EXTENDS Integers, Sequences, FiniteSets, TLC

\* ------------------------------------------------------------------ bounds
MaxOps == 5          \* operations in one run of Spec
MaxCapOps == 2       \* operations other than pushes in one run of SpecCap
MaxPushes == 22      \* uncharged clears in one run of SpecCap
MaxMoves == 2        \* pointermoves counted in one gesture
NumIds == 3          \* creations of the user in the creations table
MaxRequests == 3     \* requests to /api/generate in one run
MaxMounts == 2       \* times the page is mounted again in one run

\* ------------------------------------------------------- program constants
HistoryLimit == 20   \* page.tsx:162, page.tsx:327

Tools == {"freehand", "line", "rectangle", "circle"}      \* page.tsx:18
Coords == {0, 1}           \* pointer positions: the corners of a square
Points == Coords \X Coords
Origin == <<0, 0>>                                        \* page.tsx:138-139
NoPoint == <<-1, -1>>      \* the current path has no subpath
ArcEnd == <<-2, -2>>       \* end point of a full arc: not a pointer position

\* Canvas sizes the container can take: 0 is a container without area
\* (canvas.width = 0), the others are two different non-empty sizes that
\* both contain every pointer position.
Sizes == {0, 1, 2}

NoImage == [w |-> 0, marks |-> {}]   \* null: an ImageData never has width 0

\* --------------------------------------------------------- shape geometry
Lt(p, q) == p[1] < q[1] \/ (p[1] = q[1] /\ p[2] < q[2])
Min(a, b) == IF a < b THEN a ELSE b
Max(a, b) == IF a < b THEN b ELSE a

\* A straight segment between p and q; stroking does not depend on direction.
Seg(p, q) ==
  IF Lt(q, p) THEN [k |-> "seg", a |-> q, b |-> p, r |-> 0]
  ELSE [k |-> "seg", a |-> p, b |-> q, r |-> 0]

\* moveTo(p); lineTo(q): a zero-length line is pruned when the path is traced.
LineMarks(p, q) == IF p = q THEN {} ELSE {Seg(p, q)}

\* The rectangle as it would be if the drag direction showed in the pixels.
RectMarksOriented(p, q) ==
  IF p = q THEN {} ELSE {[k |-> "rect", a |-> p, b |-> q, r |-> 0]}

\* rect(x, y, w, h) with w = q.x - p.x, h = q.y - p.y: the closed subpath
\* (x,y) (x+w,y) (x+w,y+h) (x,y+h).  With w = 0 or h = 0 the four edges lie
\* on one segment; with both 0 every edge has length zero.
RectMarks(p, q) ==
  IF p = q THEN {}
  ELSE IF p[1] = q[1] \/ p[2] = q[2] THEN {Seg(p, q)}
  ELSE {[k |-> "rect",
         a |-> <<Min(p[1], q[1]), Min(p[2], q[2])>>,
         b |-> <<Max(p[1], q[1]), Max(p[2], q[2])>>,
         r |-> 0]}

\* Math.hypot(dx, dy) is kept as its square, which orders radii the same way.
Radius2(p, q) ==
  (q[1] - p[1]) * (q[1] - p[1]) + (q[2] - p[2]) * (q[2] - p[2])

\* arc(c.x, c.y, radius, 0, 2*PI): a full circle; radius 0 is a single point.
ArcMarks(c, r2) ==
  IF r2 = 0 THEN {} ELSE {[k |-> "circ", a |-> c, b |-> c, r |-> r2]}

\* ------------------------------------------------- 2D context current path
EmptyPath == [start |-> NoPoint, cur |-> NoPoint, marks |-> {}]

BeginPath == EmptyPath

MoveTo(path, p) == [path EXCEPT !.start = p, !.cur = p]

LineTo(path, p) ==
  IF path.cur = NoPoint THEN MoveTo(path, p)
  ELSE [path EXCEPT !.cur = p, !.marks = @ \cup LineMarks(path.cur, p)]

RectPath(path, p, q) ==
  [start |-> p, cur |-> p, marks |-> path.marks \cup RectMarks(p, q)]

ArcPath(path, c, r2) ==
  [start |-> IF path.cur = NoPoint THEN ArcEnd ELSE path.start,
   cur |-> ArcEnd,
   marks |-> path.marks \cup ArcMarks(c, r2)
             \cup (IF path.cur = NoPoint THEN {}
                   ELSE LineMarks(path.cur, ArcEnd))]

ClosePath(path) ==
  IF path.cur = NoPoint THEN path
  ELSE [path EXCEPT !.cur = path.start,
                    !.marks = @ \cup LineMarks(path.cur, path.start)]

\* ------------------------------------------------------------------- state
VARIABLES
  size,          \* canvas.width / canvas.height, as one of Sizes
  bitmap,        \* the canvas bitmap: the set of marks stroked onto it
  path,          \* the 2D context's current path
  hasSketch,     \* React state (page.tsx:12)
  selectedTool,  \* React state (page.tsx:18)
  canUndo,       \* React state (page.tsx:20)
  historyRef,    \* historyRef.current (page.tsx:19)
  drawing,       \* local of the drawing effect (page.tsx:137)
  pointer,       \* local of the drawing effect (page.tsx:138)
  startPoint,    \* local of the drawing effect (page.tsx:139)
  snapshot,      \* local of the drawing effect (page.tsx:140)
  captured,      \* the canvas holds the pointer capture
  pushes,        \* entries pushed onto the history so far
  \* observation of the run, not program state
  budget,        \* what is left of the run: operations, uncharged clears
  last,          \* the name of the last operation
  gest,          \* the pointer gesture as the user performs it
  clr,           \* a clear or resize and the undo that directly follows it
  popped         \* an undo has popped an entry in this run

\* The edit-history route (src/unnamed/part_004, GET): the user's rows of the
\* creations table and the locals of one request.
VARIABLES
  creations,     \* parent_creation_id of each of the user's creations
  byCreated,     \* the user's creations in the order of created_at
  creationId,    \* params.id of the request
  at,            \* where the request is: start, up, query, down, done
  currentId,     \* local of GET (part_004:68)
  visited,       \* local of GET (part_004:69)
  creationMap,   \* local of GET (part_004:106): its keys in insertion order
  chain,         \* local of GET (part_004:105): the ids of the rows pushed
  nextId,        \* local of GET (part_004:109)
  status         \* HTTP status of the response, 0 while there is none

route == <<creations, byCreated, creationId, at, currentId, visited,
           creationMap, chain, nextId, status>>

prog == <<size, bitmap, path, hasSketch, selectedTool, canUndo, historyRef,
          drawing, pointer, startPoint, snapshot, captured, pushes>>
\* Generation (page.tsx, handleGenerate): the React state it reads and writes,
\* localStorage and the requests to /api/generate that have no response yet.
VARIABLES
  user,                  \* React state (page.tsx:21): someone is signed in
  guestGenerationCount,  \* React state (page.tsx:25)
  isGenerating,          \* React state (page.tsx:14)
  showLoginPrompt,       \* React state (page.tsx:24)
  stored,                \* localStorage "guestGenerationCount", 0 if absent
  inflight,              \* requests sent and not yet answered
  \* observation of the run, not program state
  requests,              \* requests sent so far
  mounts,                \* times the page was mounted again
  obtained               \* images delivered for requests sent as a guest

guest == <<user, guestGenerationCount, isGenerating, showLoginPrompt, stored,
           inflight, requests, mounts, obtained>>

surface == <<size, bitmap, path, hasSketch, selectedTool, canUndo, historyRef,
             drawing, pointer, startPoint, snapshot, captured, pushes,
             budget, last, gest, clr, popped>>
vars == <<surface, route, guest>>

\* ----------------------------------------------------------------- helpers
\* ctx.getImageData(0, 0, canvas.width, canvas.height): a copy of the bitmap.
\* It throws on a canvas without area, or when the copy cannot be allocated
\* (ok = FALSE).
CanCapture(ok) == size # 0 /\ ok
GetImageData == [w |-> size, marks |-> bitmap]

\* ctx.putImageData(img, 0, 0) onto a canvas of size sz: replaces the bitmap,
\* no blending.
PutImageData(sz, img) == IF sz = 0 THEN {} ELSE img.marks

\* ctx.stroke(): strokes the current path pth onto bitmap bm.
Stroke(bm, pth) == IF size = 0 THEN {} ELSE bm \cup pth.marks

\* Push as it would be without the shift().
PushNoShift(hist, e) == Append(hist, e)

\* Push as it would be with pop() in the place of shift().
PushDropNewest(hist, e) ==
  LET h == Append(hist, e)
  IN IF Len(h) > HistoryLimit THEN hist ELSE h

\* historyRef.current.push(e); if (length > 20) shift()
Push(hist, e) ==
  LET h == Append(hist, e)
  IN IF Len(h) > HistoryLimit THEN Tail(h) ELSE h

\* The entry as it would be with the flag recomputed from the pixels.
EntryRecomputed == [imageData |-> GetImageData, hasSketch |-> (bitmap # {}),
                    seq |-> pushes + 1]

\* { imageData: snapshotImage, hasSketch }; seq numbers the pushed objects.
Entry == [imageData |-> GetImageData, hasSketch |-> hasSketch,
          seq |-> pushes + 1]

\* The try block as it would be if it pushed the entry twice.
SnapshotForUndoTwice(ok) ==
  IF CanCapture(ok)
  THEN /\ historyRef' = Push(Push(historyRef, Entry), Entry)
       /\ canUndo' = (Len(historyRef') > 0)
       /\ pushes' = pushes + 1
  ELSE UNCHANGED <<historyRef, canUndo, pushes>>

\* The try block as it would be if its catch dropped the history.
SnapshotForUndoReset(ok) ==
  IF CanCapture(ok)
  THEN /\ historyRef' = Push(historyRef, Entry)
       /\ canUndo' = (Len(historyRef') > 0)
       /\ pushes' = pushes + 1
  ELSE /\ historyRef' = <<>>
       /\ canUndo' = FALSE
       /\ pushes' = pushes

\* try { push; shift; setCanUndo } catch { log }   (page.tsx:159-168, 324-333)
SnapshotForUndo(ok) ==
  IF CanCapture(ok)
  THEN /\ historyRef' = Push(historyRef, Entry)
       /\ canUndo' = (Len(historyRef') > 0)
       /\ pushes' = pushes + 1
  ELSE UNCHANGED <<historyRef, canUndo, pushes>>

\* The drawing effect runs again when a dependency changed.
Rerun(h, t) == h # hasSketch \/ t # selectedTool

\* Commit the React state h, t and the effect's locals d, ptr, sp, snap the
\* handler leaves behind; a re-run of the effect replaces the locals by the
\* fresh ones of page.tsx:137-140.
Commit(h, t, d, ptr, sp, snap) ==
  /\ hasSketch' = h
  /\ selectedTool' = t
  /\ drawing' = IF Rerun(h, t) THEN FALSE ELSE d
  /\ pointer' = IF Rerun(h, t) THEN Origin ELSE ptr
  /\ startPoint' = IF Rerun(h, t) THEN Origin ELSE sp
  /\ snapshot' = IF Rerun(h, t) THEN NoImage ELSE snap

Same == Commit(hasSketch, selectedTool, drawing, pointer, startPoint, snapshot)

\* The path a shaped tool strokes from start point s to point p.
ShapePath(tool, s, p) ==
  CASE tool = "line" -> LineTo(MoveTo(BeginPath, s), p)
    [] tool = "rectangle" -> RectPath(BeginPath, s, p)
    [] tool = "circle" -> ArcPath(BeginPath, s, Radius2(s, p))
    [] OTHER -> path

\* The preview of a shaped tool: the snapshot put back, the shape stroked on
\* top of it (page.tsx:199-222).
Preview(snap, pth) == Stroke(PutImageData(size, snap), pth)

\* The commit as it would be with the stroke() of line 270 after the
\* radius test, not inside it: the current path is stroked in any case.
FinalizedStrokeAlways(snap, pth, skipped) ==
  Stroke(PutImageData(size, snap), pth)

\* The commit as it would be without the putImageData of line 248.
FinalizedNoRestore(snap, pth, skipped) ==
  IF skipped THEN bitmap ELSE Stroke(bitmap, pth)

\* The commit of a shaped tool: the snapshot put back, the final shape stroked
\* on top of it unless it is a circle of radius 0 (page.tsx:248-273).
Finalized(snap, pth, skipped) ==
  IF skipped THEN PutImageData(size, snap)
  ELSE Stroke(PutImageData(size, snap), pth)

\* ------------------------------------------------------------ the handlers
\* pointerdown at p.  undoOk, previewOk: the two getImageData calls succeed.
HandlePointerDown(p, undoOk, previewOk) ==
  /\ captured' = TRUE
  /\ SnapshotForUndo(undoOk)
  /\ UNCHANGED <<size, bitmap>>
  /\ IF selectedTool = "freehand"
     THEN /\ path' = MoveTo(BeginPath, p)
          /\ Commit(hasSketch, selectedTool, TRUE, p, p, NoImage)
     ELSE /\ path' = path
          \* line 175 is outside the try: when it throws, snapshot keeps
          \* its value and the handler ends
          /\ Commit(hasSketch, selectedTool, TRUE, p, p,
                    IF CanCapture(previewOk) THEN GetImageData ELSE snapshot)

\* pointermove as it would be if a shaped preview called setHasSketch(true).
HandlePointerMoveFlag(p) ==
  /\ UNCHANGED <<size, captured, historyRef, canUndo, pushes>>
  /\ IF ~drawing
     THEN UNCHANGED <<bitmap, path>> /\ Same
     ELSE IF selectedTool = "freehand"
     THEN /\ path' = LineTo(path, p)
          /\ bitmap' = Stroke(bitmap, path')
          /\ Commit(TRUE, selectedTool, drawing, p, startPoint, snapshot)
     ELSE IF snapshot = NoImage
     THEN /\ UNCHANGED <<bitmap, path>>
          /\ Commit(hasSketch, selectedTool, drawing, p, startPoint, snapshot)
     ELSE /\ path' = ShapePath(selectedTool, startPoint, p)
          /\ bitmap' = Preview(snapshot, path')
          /\ Commit(TRUE, selectedTool, drawing, p, startPoint, snapshot)

\* pointermove at p.
HandlePointerMove(p) ==
  /\ UNCHANGED <<size, captured, historyRef, canUndo, pushes>>
  /\ IF ~drawing
     THEN UNCHANGED <<bitmap, path>> /\ Same
     ELSE IF selectedTool = "freehand"
     THEN /\ path' = LineTo(path, p)
          /\ bitmap' = Stroke(bitmap, path')
          /\ Commit(TRUE, selectedTool, drawing, p, startPoint, snapshot)
     ELSE IF snapshot = NoImage
     THEN /\ UNCHANGED <<bitmap, path>>
          /\ Commit(hasSketch, selectedTool, drawing, p, startPoint, snapshot)
     ELSE /\ path' = ShapePath(selectedTool, startPoint, p)
          /\ bitmap' = Preview(snapshot, path')
          /\ Commit(hasSketch, selectedTool, drawing, p, startPoint, snapshot)

\* finalizeDrawing in the Drawing state, event at p: the current path, the
\* bitmap and the value of hasSketch it leaves (page.tsx:238-278).
FinalSkipped(p) == selectedTool = "circle" /\ Radius2(startPoint, p) = 0

FinalPath(p) ==
  IF selectedTool = "freehand" THEN ClosePath(path)
  ELSE IF snapshot = NoImage \/ FinalSkipped(p) THEN path
  ELSE ShapePath(selectedTool, startPoint, p)

FinalBitmap(p) ==
  IF selectedTool = "freehand" \/ snapshot = NoImage THEN bitmap
  ELSE Finalized(snapshot, FinalPath(p), FinalSkipped(p))

FinalHasSketch(p) ==
  IF selectedTool = "freehand" THEN TRUE
  ELSE IF snapshot = NoImage THEN hasSketch
  ELSE IF p # startPoint THEN TRUE ELSE hasSketch

\* finalizeDrawing as it would be without the test of page.tsx:226-228.
FinalizeDrawingNoGuard(p) ==
  /\ UNCHANGED <<size, historyRef, canUndo, pushes>>
  /\ path' = FinalPath(p)
  /\ bitmap' = FinalBitmap(p)
  /\ Commit(FinalHasSketch(p), selectedTool, FALSE, p, startPoint,
            IF selectedTool = "freehand" \/ snapshot = NoImage
            THEN snapshot ELSE NoImage)

\* finalizeDrawing(event), event at p.
FinalizeDrawing(p) ==
  /\ UNCHANGED <<size, historyRef, canUndo, pushes>>
  /\ IF ~drawing
     THEN UNCHANGED <<bitmap, path>> /\ Same
     ELSE /\ path' = FinalPath(p)
          /\ bitmap' = FinalBitmap(p)
          /\ Commit(FinalHasSketch(p), selectedTool, FALSE, p, startPoint,
                    IF selectedTool = "freehand" \/ snapshot = NoImage
                    THEN snapshot ELSE NoImage)

\* pointerup at p: finalize, then release the pointer capture if held.
HandlePointerUp(p) == FinalizeDrawing(p) /\ captured' = FALSE

\* pointerleave at p.
HandlePointerLeave(p) == FinalizeDrawing(p) /\ captured' = FALSE

\* pointercancel as it would be if it only dropped the gesture.
HandlePointerCancelAbort(p) ==
  /\ drawing' = FALSE
  /\ snapshot' = NoImage
  /\ captured' = FALSE
  /\ UNCHANGED <<size, bitmap, path, hasSketch, selectedTool, canUndo,
                 historyRef, pointer, startPoint, pushes>>

\* pointercancel at p.
HandlePointerCancel(p) == FinalizeDrawing(p) /\ captured' = FALSE

\* The Clear button as it would be without lines 324-333.
HandleClearNoSnapshot(ok) ==
  /\ bitmap' = {}
  /\ Commit(FALSE, selectedTool, drawing, pointer, startPoint, snapshot)
  /\ UNCHANGED <<size, path, captured, historyRef, canUndo, pushes>>

\* The Clear button as it would be without the setHasSketch(false) of line 336.
HandleClearKeepFlag(ok) ==
  /\ SnapshotForUndo(ok)
  /\ bitmap' = {}
  /\ Same
  /\ UNCHANGED <<size, path, captured>>

\* The Clear button.  ok: getImageData succeeds.
HandleClear(ok) ==
  /\ SnapshotForUndo(ok)
  /\ bitmap' = {}
  /\ Commit(FALSE, selectedTool, drawing, pointer, startPoint, snapshot)
  /\ UNCHANGED <<size, path, captured>>

\* historyRef.current.pop()
Previous(hist) == hist[Len(hist)]
Pop(hist) == SubSeq(hist, 1, Len(hist) - 1)

\* The Undo button as it would be if an empty history reset the surface.
HandleUndoReset ==
  /\ UNCHANGED <<size, path, captured, pushes>>
  /\ IF historyRef = <<>>
     THEN /\ canUndo' = FALSE
          /\ bitmap' = {}
          /\ historyRef' = historyRef
          /\ Commit(FALSE, selectedTool, drawing, pointer, startPoint,
                    snapshot)
     ELSE /\ historyRef' = Pop(historyRef)
          /\ bitmap' = PutImageData(size, Previous(historyRef).imageData)
          /\ canUndo' = (Len(historyRef') > 0)
          /\ Commit(Previous(historyRef).hasSketch, selectedTool,
                    drawing, pointer, startPoint, snapshot)

\* The Undo button.
HandleUndo ==
  /\ UNCHANGED <<size, path, captured, pushes>>
  /\ IF historyRef = <<>>
     THEN /\ canUndo' = FALSE
          /\ UNCHANGED <<bitmap, historyRef>>
          /\ Same
     ELSE /\ historyRef' = Pop(historyRef)
          /\ bitmap' = PutImageData(size, Previous(historyRef).imageData)
          /\ canUndo' = (Len(historyRef') > 0)
          /\ Commit(Previous(historyRef).hasSketch, selectedTool,
                    drawing, pointer, startPoint, snapshot)

\* A tool button as it would be if it also wiped the canvas.
HandleSelectToolWipe(t) ==
  /\ bitmap' = {}
  /\ Commit(FALSE, t, drawing, pointer, startPoint, snapshot)
  /\ UNCHANGED <<size, path, canUndo, historyRef, captured, pushes>>

\* A tool button: setSelectedTool(t).
HandleSelectTool(t) ==
  /\ Commit(hasSketch, t, drawing, pointer, startPoint, snapshot)
  /\ UNCHANGED <<size, bitmap, path, canUndo, historyRef, captured, pushes>>

\* resize() as it would be without line 114.
HandleResizeKeepHistory(s) ==
  /\ size' = s
  /\ bitmap' = {}
  /\ path' = EmptyPath
  /\ canUndo' = (Len(historyRef) > 0)
  /\ UNCHANGED <<historyRef, hasSketch, selectedTool, drawing, pointer,
                 startPoint, snapshot, captured, pushes>>

\* resize() as it would be without line 115.
HandleResizeKeepFlag(s) ==
  /\ size' = s
  /\ bitmap' = {}
  /\ path' = EmptyPath
  /\ historyRef' = <<>>
  /\ UNCHANGED <<canUndo, hasSketch, selectedTool, drawing, pointer,
                 startPoint, snapshot, captured, pushes>>

\* resize(), with the container at size s.  Assigning canvas.width resets
\* the bitmap and the context, the current path included.
HandleResize(s) ==
  /\ size' = s
  /\ bitmap' = {}
  /\ path' = EmptyPath
  /\ historyRef' = <<>>
  /\ canUndo' = FALSE
  /\ UNCHANGED <<hasSketch, selectedTool, drawing, pointer, startPoint,
                 snapshot, captured, pushes>>

\* ------------------------------------------------- observation of the run
NoGest == [phase |-> "none", pre |-> {}, preHas |-> FALSE, tool |-> "freehand",
           p0 |-> Origin, p1 |-> Origin, undo |-> FALSE, cap |-> FALSE,
           moves |-> 0]
NoClr == [phase |-> "none", by |-> "none", pre |-> {}, preHas |-> FALSE,
          pushed |-> FALSE]

\* One operation of the run.
Charge == budget.ops > 0 /\ budget' = [budget EXCEPT !.ops = @ - 1]

\* A clear that pushes an entry is not charged while the run has uncharged
\* clears left.
ChargeClear(ok) ==
  IF CanCapture(ok) /\ budget.free > 0
  THEN budget' = [budget EXCEPT !.free = @ - 1]
  ELSE Charge

Observe(op, g, c) ==
  /\ last' = op
  /\ gest' = g
  /\ clr' = c
  /\ popped' = (popped \/ (op = "undo" /\ historyRef # <<>>))
  /\ UNCHANGED <<route, guest>>

\* A gesture is followed from a pointerdown in the Idle state, through its
\* pointermoves, to its pointerup/leave/cancel; any other operation in
\* between ends the observation.
GestDown(p, undoOk, previewOk) ==
  IF drawing THEN NoGest
  ELSE [phase |-> "open", pre |-> bitmap, preHas |-> hasSketch,
        tool |-> selectedTool, p0 |-> p, p1 |-> p,
        undo |-> CanCapture(undoOk),
        cap |-> (selectedTool # "freehand" /\ CanCapture(previewOk)),
        moves |-> 0]
GestMove(p) ==
  IF gest.phase = "open"
  THEN [gest EXCEPT !.p1 = p, !.moves = Min(@ + 1, MaxMoves)]
  ELSE NoGest
GestEnd(p) ==
  IF gest.phase = "open"
  THEN [gest EXCEPT !.phase = "done", !.p1 = p]
  ELSE NoGest

\* ------------------------------------------------------------- operations
PointerDown(p, undoOk, previewOk) ==
  /\ Charge
  /\ HandlePointerDown(p, undoOk, previewOk)
  /\ Observe("down", GestDown(p, undoOk, previewOk), NoClr)

PointerMove(p) ==
  Charge /\ HandlePointerMove(p) /\ Observe("move", GestMove(p), NoClr)

PointerUp(p) ==
  Charge /\ HandlePointerUp(p) /\ Observe("up", GestEnd(p), NoClr)

PointerLeave(p) ==
  Charge /\ HandlePointerLeave(p) /\ Observe("leave", GestEnd(p), NoClr)

PointerCancel(p) ==
  Charge /\ HandlePointerCancel(p) /\ Observe("cancel", GestEnd(p), NoClr)

Clear(ok) ==
  /\ ChargeClear(ok)
  /\ HandleClear(ok)
  /\ Observe("clear", NoGest,
             [phase |-> "reset", by |-> "clear", pre |-> bitmap,
              preHas |-> hasSketch, pushed |-> CanCapture(ok)])

Undo ==
  /\ Charge
  /\ HandleUndo
  /\ Observe("undo", NoGest,
             IF clr.phase = "reset" THEN [clr EXCEPT !.phase = "undone"]
             ELSE NoClr)

SelectTool(t) ==
  Charge /\ HandleSelectTool(t) /\ Observe("tool", NoGest, NoClr)

\* The ResizeObserver reports a size other than the current one.
Resize(s) ==
  /\ Charge
  /\ s # size
  /\ HandleResize(s)
  /\ Observe("resize", NoGest,
             [phase |-> "reset", by |-> "resize", pre |-> bitmap,
              preHas |-> hasSketch, pushed |-> FALSE])

\* ---------------------------------------------------------- specifications
\* After mount: resize() has run once (page.tsx:118) on a container with
\* area, and the drawing effect has run once.
InitProg ==
  /\ size = 1
  /\ bitmap = {}
  /\ path = EmptyPath
  /\ hasSketch = FALSE
  /\ selectedTool = "freehand"
  /\ canUndo = FALSE
  /\ historyRef = <<>>
  /\ drawing = FALSE
  /\ pointer = Origin
  /\ startPoint = Origin
  /\ snapshot = NoImage
  /\ captured = FALSE
  /\ pushes = 0
  /\ last = "init"
  /\ gest = NoGest
  /\ clr = NoClr
  /\ popped = FALSE

\* No request to the edit-history route in runs of the sketch surface.
NoRequest ==
  /\ creations = <<>>
  /\ byCreated = <<>>
  /\ creationId = 0
  /\ at = "done"
  /\ currentId = 0
  /\ visited = {}
  /\ creationMap = <<>>
  /\ chain = <<>>
  /\ nextId = 0
  /\ status = 0

\* The state of generation after mount, with nothing in localStorage and
\* nobody signed in (page.tsx:14-25).
InitGuest ==
  /\ user = FALSE
  /\ guestGenerationCount = 0
  /\ isGenerating = FALSE
  /\ showLoginPrompt = FALSE
  /\ stored = 0
  /\ inflight = <<>>
  /\ requests = 0
  /\ mounts = 0
  /\ obtained = 0

Init ==
  InitProg /\ budget = [ops |-> MaxOps, free |-> 0] /\ NoRequest /\ InitGuest

InitCap ==
  /\ InitProg /\ budget = [ops |-> MaxCapOps, free |-> MaxPushes]
  /\ NoRequest /\ InitGuest

Next ==
  \/ \E p \in Points, undoOk \in BOOLEAN, previewOk \in BOOLEAN :
       PointerDown(p, undoOk, previewOk)
  \/ \E p \in Points : PointerMove(p)
  \/ \E p \in Points : PointerUp(p)
  \/ \E p \in Points : PointerLeave(p)
  \/ \E p \in Points : PointerCancel(p)
  \/ \E ok \in BOOLEAN : Clear(ok)
  \/ Undo
  \/ \E t \in Tools : SelectTool(t)
  \/ \E s \in Sizes : Resize(s)

\* Runs of at most MaxOps operations, every input allowed.
Spec == Init /\ [][Next]_vars

\* Runs that fill the history: up to MaxPushes uncharged clears and MaxCapOps
\* other operations.
SpecCap == InitCap /\ [][Next]_vars

\* ------------------------------------------------- the edit-history route
\* GET /api/creations/[id]/history (src/unnamed/part_004).  The table holds
\* NumIds creations of the signed-in user; every query filters on user_id,
\* so a parent_creation_id that names a creation of somebody else, or a
\* deleted one, finds no row.
Ids == 1..NumIds
NoId == 0                  \* null
Foreign == NumIds + 1      \* an id that is not a creation of the user
Parents == Ids \cup {NoId, Foreign}

Perms(S) == {q \in [1..Cardinality(S) -> S] : \A x \in S : \E i \in DOMAIN q : q[i] = x}

\* The rows of seq whose ids are in S, in the order of seq.
Filter(seq, S) == SelectSeq(seq, LAMBDA x : x \in S)

\* .single(): the row with the id, or null.
HasRow(id) == id \in Ids

\* const { id: creationId } = await params; the first query (part_004:41-65).
GetStart ==
  /\ at = "start"
  /\ IF creationId = NoId
     THEN status' = 400 /\ at' = "done" /\ UNCHANGED currentId
     ELSE IF ~HasRow(creationId)
     THEN status' = 404 /\ at' = "done" /\ UNCHANGED currentId
     ELSE status' = status /\ at' = "up" /\ currentId' = creationId
  /\ visited' = {}
  /\ UNCHANGED <<creations, byCreated, creationId, creationMap, chain, nextId>>
  /\ UNCHANGED <<surface, guest>>

\* One iteration of the loop that walks up to the root (part_004:71-90),
\* the test of the loop included.
WalkUp ==
  /\ at = "up"
  /\ IF currentId = NoId \/ currentId \in visited
     THEN at' = "query" /\ UNCHANGED <<currentId, visited>>
     ELSE /\ visited' = visited \cup {currentId}
          /\ IF ~HasRow(currentId) \/ creations[currentId] = NoId
             THEN at' = "query" /\ UNCHANGED currentId
             ELSE at' = "up" /\ currentId' = creations[currentId]
  /\ UNCHANGED <<creations, byCreated, creationId, creationMap, chain, nextId,
                 status>>
  /\ UNCHANGED <<surface, guest>>

\* The rows with id = currentId or parent_creation_id = currentId, ordered by
\* created_at (part_004:93-98).
ChainCreations ==
  Filter(byCreated, {id \in Ids : id = currentId \/ creations[id] = currentId})

\* The chain query and the locals of the second loop (part_004:93-109).
\* failed: the query returns an error.
ChainQuery(failed) ==
  /\ at = "query"
  /\ IF failed
     THEN /\ status' = 500 /\ at' = "done"
          /\ UNCHANGED <<creationMap, chain, nextId>>
     ELSE /\ creationMap' = ChainCreations
          /\ chain' = <<>>
          /\ nextId' = currentId
          /\ at' = "down"
          /\ status' = status
  /\ UNCHANGED <<creations, byCreated, creationId, currentId, visited>>
  /\ UNCHANGED <<surface, guest>>

\* for (const [id, c] of creationMap) if (c.parent_creation_id === id0): the
\* first key of the map whose row has parent id0, or null (part_004:115-121).
FirstChild(map, id0) ==
  LET kids == Filter(map, {id \in Ids : creations[id] = id0})
  IN IF kids = <<>> THEN NoId ELSE Head(kids)

\* The chain is followed while it is shorter than MaxChain.
MaxChain == NumIds + 2

\* One iteration of the loop that builds the chain (part_004:110-122).
WalkDown ==
  /\ at = "down"
  /\ nextId # NoId
  /\ \E i \in DOMAIN creationMap : creationMap[i] = nextId
  /\ Len(chain) < MaxChain
  /\ chain' = Append(chain, nextId)
  /\ nextId' = FirstChild(creationMap, nextId)
  /\ UNCHANGED <<creations, byCreated, creationId, at, currentId, visited,
                 creationMap, status>>
  /\ UNCHANGED <<surface, guest>>

\* The loop has ended: return NextResponse.json({ chain }) (part_004:124).
Respond ==
  /\ at = "down"
  /\ ~(nextId # NoId /\ \E i \in DOMAIN creationMap : creationMap[i] = nextId)
  /\ at' = "done"
  /\ status' = 200
  /\ UNCHANGED <<creations, byCreated, creationId, currentId, visited,
                 creationMap, chain, nextId>>
  /\ UNCHANGED <<surface, guest>>

\* One request, for any id, on any table of NumIds creations.
InitRoute ==
  /\ InitProg
  /\ budget = [ops |-> 0, free |-> 0]
  /\ InitGuest
  /\ creations \in [Ids -> Parents]
  /\ byCreated \in Perms(Ids)
  /\ creationId \in Ids \cup {NoId, Foreign}
  /\ at = "start"
  /\ currentId = NoId
  /\ visited = {}
  /\ creationMap = <<>>
  /\ chain = <<>>
  /\ nextId = NoId
  /\ status = 0

NextRoute ==
  \/ GetStart
  \/ WalkUp
  \/ \E failed \in BOOLEAN : ChainQuery(failed)
  \/ WalkDown
  \/ Respond

SpecRoute == InitRoute /\ [][NextRoute]_vars

\* ------------------------------------------------------------- generation
\* handleGenerate (page.tsx:359-425; the edit page's handleGenerate,
\* page.tsx:945-1008, has the same guest check, request and bookkeeping).
\* A request remembers what the closure that sent it holds: the value of
\* guestGenerationCount and whether nobody was signed in; live says that the
\* component that sent it is still mounted.
Request == [live |-> TRUE, count |-> guestGenerationCount, guest |-> ~user]

Remove(seq, i) == SubSeq(seq, 1, i - 1) \o SubSeq(seq, i + 1, Len(seq))

\* handleGenerate as it would be without the check of page.tsx:374-378.
HandleGenerateNoLimit(promptOk) ==
  /\ IF ~promptOk
     THEN UNCHANGED <<isGenerating, showLoginPrompt, inflight, requests>>
     ELSE /\ isGenerating' = TRUE
          /\ inflight' = Append(inflight, Request)
          /\ requests' = requests + 1
          /\ UNCHANGED showLoginPrompt
  /\ UNCHANGED <<user, guestGenerationCount, stored, mounts, obtained>>

\* handleGenerate up to its fetch.  promptOk: the prompt is not blank.
HandleGenerate(promptOk) ==
  /\ IF ~promptOk
     THEN UNCHANGED <<isGenerating, showLoginPrompt, inflight, requests>>
     ELSE IF ~user /\ guestGenerationCount >= 1
     THEN /\ showLoginPrompt' = TRUE
          /\ UNCHANGED <<isGenerating, inflight, requests>>
     ELSE /\ isGenerating' = TRUE
          /\ inflight' = Append(inflight, Request)
          /\ requests' = requests + 1
          /\ UNCHANGED showLoginPrompt
  /\ UNCHANGED <<user, guestGenerationCount, stored, mounts, obtained>>

\* A click on the Generate button, which is disabled while isGenerating
\* (page.tsx:616).
Generate(promptOk) ==
  /\ ~isGenerating
  /\ requests < MaxRequests
  /\ HandleGenerate(promptOk)
  /\ UNCHANGED <<surface, route>>

\* handleGenerate from the response on (page.tsx:395-424), for the request
\* at place i.  ok: the response is a success with an image.  The setters of
\* a component that is no longer mounted do nothing; localStorage is written
\* all the same.
Response(i, ok) ==
  LET req == inflight[i]
  IN /\ inflight' = Remove(inflight, i)
     /\ isGenerating' = IF req.live THEN FALSE ELSE isGenerating
     /\ guestGenerationCount' =
          IF ok /\ req.guest /\ req.live THEN req.count + 1
          ELSE guestGenerationCount
     /\ stored' = IF ok /\ req.guest THEN req.count + 1 ELSE stored
     /\ obtained' =
          IF ok /\ req.guest /\ req.live THEN obtained + 1 ELSE obtained
     /\ UNCHANGED <<user, showLoginPrompt, requests, mounts>>
     /\ UNCHANGED <<surface, route>>

\* onAuthStateChange / initAuth: setUser (page.tsx:41-58).
AuthStateChange(u) ==
  /\ user' = u
  /\ u # user
  /\ UNCHANGED <<guestGenerationCount, isGenerating, showLoginPrompt, stored,
                 inflight, requests, mounts, obtained>>
  /\ UNCHANGED <<surface, route>>

\* The page is left and entered again: a new component, whose state is the
\* initial one (page.tsx:14-25) and whose mount effect reads localStorage
\* (page.tsx:69-75); the requests of the old component stay in flight.
Remount ==
  /\ mounts < MaxMounts
  /\ mounts' = mounts + 1
  /\ user' = FALSE
  /\ isGenerating' = FALSE
  /\ showLoginPrompt' = FALSE
  /\ guestGenerationCount' = stored
  /\ inflight' = [i \in DOMAIN inflight |-> [inflight[i] EXCEPT !.live = FALSE]]
  /\ UNCHANGED <<stored, requests, obtained>>
  /\ UNCHANGED <<surface, route>>

InitGenerate ==
  /\ InitProg
  /\ budget = [ops |-> 0, free |-> 0]
  /\ NoRequest
  /\ InitGuest

NextGenerate ==
  \/ \E promptOk \in BOOLEAN : Generate(promptOk)
  \/ \E i \in DOMAIN inflight, ok \in BOOLEAN : Response(i, ok)
  \/ \E u \in BOOLEAN : AuthStateChange(u)
  \/ Remount

SpecGenerate == InitGenerate /\ [][NextGenerate]_vars

\* ================================================================== claims
Range(f) == {f[i] : i \in DOMAIN f}
Shaped == Tools \ {"freehand"}

\* C1: after any sequence of operations the undo history holds at most 20
\* entries.
C1_HistoryBounded == Len(historyRef) <= HistoryLimit

\* A pointerdown has just pushed onto a history that was full.
C1_Witness ==
  /\ last = "down"
  /\ Len(historyRef) = HistoryLimit
  /\ pushes > HistoryLimit
  /\ Previous(historyRef).seq = pushes

\* C2: a push stores the buffer and hasSketch of that moment; a stored entry
\* stays as it is for as long as it is in the history; an undo that pops an
\* entry sets the buffer and hasSketch to what the entry holds, and to nothing
\* recomputed.
C2_UndoRestoresPushed ==
  [][/\ pushes' = pushes + 1 =>
          /\ Previous(historyRef').imageData.marks = bitmap
          /\ Previous(historyRef').hasSketch = hasSketch
          /\ Previous(historyRef').seq = pushes'
     /\ \A e \in Range(historyRef') :
          e.seq <= pushes => e \in Range(historyRef)
     /\ (last' = "undo" /\ historyRef # <<>>) =>
          /\ bitmap' = Previous(historyRef).imageData.marks
          /\ hasSketch' = Previous(historyRef).hasSketch
          /\ historyRef' = Pop(historyRef)]_vars

\* An undo has restored a drawn buffer with hasSketch = TRUE from an entry
\* that was pushed before the latest stroke.
C2_Witness ==
  /\ last = "undo"
  /\ bitmap # {}
  /\ hasSketch
  /\ pushes >= 2
  /\ historyRef # <<>>

\* C3: a push onto a full history evicts the oldest entry and no other, the
\* others keep their order and the new entry is the newest; an undo takes the
\* newest entry; after 21 or more pushes in a row the entry pushed first is
\* not in the history, and an entry that has left the history never comes
\* back, whatever undos follow.
C3_FifoEviction ==
  [][/\ (pushes' = pushes + 1 /\ Len(historyRef) = HistoryLimit) =>
          /\ Len(historyRef') = HistoryLimit
          /\ SubSeq(historyRef', 1, HistoryLimit - 1) = Tail(historyRef)
          /\ Previous(historyRef').seq = pushes'
          /\ historyRef[1] \notin Range(historyRef')
     /\ (last' = "undo" /\ historyRef # <<>>) =>
          /\ historyRef' = Pop(historyRef)
          /\ bitmap' = Previous(historyRef).imageData.marks
     /\ \A i \in 1..(Len(historyRef') - 1) :
          historyRef'[i].seq < historyRef'[i + 1].seq
     /\ (pushes' > HistoryLimit /\ ~popped') =>
          \A e \in Range(historyRef') : e.seq # 1
     /\ \A e \in Range(historyRef') :
          e \in Range(historyRef) \/ e.seq = pushes']_vars

\* An undo after 21 pushes: the entry pushed first has been evicted, the
\* entry pushed last has been popped, the 19 in between are left.
C3_Witness ==
  /\ last = "undo"
  /\ pushes = HistoryLimit + 1
  /\ Len(historyRef) = HistoryLimit - 1
  /\ historyRef[1].seq = 2
  /\ Previous(historyRef).seq = HistoryLimit

\* C4: after every operation canUndo is true iff the history is non-empty.
C4_CanUndoIffNonEmpty == canUndo <=> (Len(historyRef) > 0)

\* An undo has popped the only entry of the history: canUndo is false again.
C4_Witness ==
  /\ last = "undo"
  /\ clr.phase = "none"
  /\ pushes >= 1
  /\ size # 0
  /\ historyRef = <<>>
  /\ ~canUndo

\* The one shape of a shaped tool from a to b.
ShapeMarks(tool, a, b) ==
  CASE tool = "line" -> LineMarks(a, b)
    [] tool = "rectangle" -> RectMarks(a, b)
    [] tool = "circle" -> ArcMarks(a, Radius2(a, b))
    [] OTHER -> {}

\* C5: a shaped-tool gesture (pointerdown at p0 in the Idle state with the
\* preview snapshot captured, one or more pointermoves, pointerup/leave/cancel
\* at p1) leaves the pre-gesture buffer plus exactly the one shape from p0 to
\* p1, whatever the pointermoves were.
C5_PreviewIdempotent ==
  (gest.phase = "done" /\ gest.tool \in Shaped /\ gest.cap /\ gest.moves >= 1)
    => bitmap = gest.pre \cup ShapeMarks(gest.tool, gest.p0, gest.p1)

\* A line gesture with two or more pointermoves has committed its line.
C5_Witness ==
  /\ gest.phase = "done"
  /\ gest.tool = "line"
  /\ gest.cap
  /\ gest.moves >= 2
  /\ gest.p0 # gest.p1
  /\ bitmap = {Seg(gest.p0, gest.p1)}

\* C6: with hasSketch = TRUE, a clear (whose snapshot was captured) followed
\* directly by an undo leaves the buffer of just before the clear and
\* hasSketch = TRUE.
C6_ClearUndoable ==
  (clr.phase = "undone" /\ clr.by = "clear" /\ clr.pushed /\ clr.preHas)
    => (bitmap = clr.pre /\ hasSketch)

\* A clear of a drawn surface has been undone.
C6_Witness ==
  /\ clr.phase = "undone"
  /\ clr.by = "clear"
  /\ clr.pushed
  /\ clr.preHas
  /\ clr.pre # {}
  /\ last = "undo"

\* C7: a resize empties the history and sets canUndo to false, an undo right
\* after it changes nothing, and every entry of the history was captured at
\* the current canvas size.
C7_ResizeEmptiesHistory ==
  [][/\ last' = "resize" => (historyRef' = <<>> /\ ~canUndo')
     /\ (clr.phase = "reset" /\ clr.by = "resize" /\ last' = "undo") =>
          (UNCHANGED prog /\ ~canUndo')
     /\ \A e \in Range(historyRef') : e.imageData.w = size']_vars

\* Something was drawn and pushed, the canvas was resized, undo was invoked.
C7_Witness ==
  /\ clr.phase = "undone"
  /\ clr.by = "resize"
  /\ clr.pre # {}
  /\ pushes >= 1
  /\ last = "undo"

\* C8: after a resize hasSketch is false.
C8_ResizeResetsHasContent == (last = "resize") => ~hasSketch

\* C9: a pointerdown in the Drawing state pushes no entry and changes neither
\* the start point, nor the preview snapshot, nor the buffer.
C9_SecondPointerDownIgnored ==
  [][\A p \in Points, undoOk \in BOOLEAN, previewOk \in BOOLEAN :
       (drawing /\ PointerDown(p, undoOk, previewOk)) =>
         UNCHANGED <<historyRef, startPoint, snapshot, bitmap>>]_vars

\* C10: from every Drawing state a pointerleave or pointercancel at p does to
\* the buffer, hasSketch, the history and the gesture what a pointerup at p
\* does, and the gesture is Idle afterwards.
C10_CancelLikeUp ==
  [][\A p \in Points :
       (drawing /\ (PointerLeave(p) \/ PointerCancel(p))) =>
         (HandlePointerUp(p) /\ ~drawing')]_vars

\* A pointercancel has ended a shaped gesture and committed its shape.
C10_Witness ==
  /\ last = "cancel"
  /\ gest.phase = "done"
  /\ gest.tool \in Shaped
  /\ gest.cap
  /\ bitmap # {}
  /\ ~drawing

C12_DestructiveFallback ==
  (/\ gest.tool \in Shaped /\ ~gest.cap /\ size # 0
   /\ \/ gest.phase = "open" /\ gest.moves >= 1
      \/ gest.phase = "done")
    => ShapeMarks(gest.tool, gest.p0, gest.p1) \subseteq bitmap

\* C13: a resize to a container without area is ignored: the buffer, the
\* history, canUndo and hasSketch are what they were before it.
C13_ZeroResizeIgnored ==
  [][Resize(0) => UNCHANGED <<bitmap, historyRef, canUndo, hasSketch>>]_vars

\* C14: a pointerdown whose undo capture succeeds pushes exactly one entry;
\* no pointermove and no pointerup/leave/cancel changes the history or
\* canUndo; so a gesture on a fresh surface ends with a history of length 1,
\* and a rectangle dragged from one corner through a neighbouring corner to the
\* opposite one ends with canUndo and hasSketch true and its rectangle drawn.
C14_OnePushPerGesture ==
  [][/\ \A p \in Points, undoOk \in BOOLEAN, previewOk \in BOOLEAN :
          (CanCapture(undoOk) /\ PointerDown(p, undoOk, previewOk)) =>
            /\ pushes' = pushes + 1
            /\ Len(historyRef') = Min(Len(historyRef) + 1, HistoryLimit)
            /\ Previous(historyRef').seq = pushes'
            /\ canUndo'
     /\ last' \in {"move", "up", "leave", "cancel"} =>
          UNCHANGED <<historyRef, canUndo, pushes>>
     /\ (gest'.phase = "done" /\ gest'.undo /\ pushes' = 1) =>
          (Len(historyRef') = 1 /\ canUndo')
     /\ (/\ gest'.phase = "done" /\ gest'.undo /\ gest'.cap /\ pushes' = 1
         /\ gest'.tool = "rectangle" /\ gest'.p0 # gest'.p1) =>
          (hasSketch' /\ bitmap' = gest'.pre \cup RectMarks(gest'.p0, gest'.p1))
    ]_vars

\* On a fresh surface a rectangle gesture from (0,0) with two pointermoves
\* has been finalized at (1,1).
C14_Witness ==
  /\ last = "up"
  /\ gest.phase = "done"
  /\ gest.tool = "rectangle"
  /\ gest.undo /\ gest.cap
  /\ gest.pre = {} /\ ~gest.preHas
  /\ gest.p0 = <<0, 0>> /\ gest.p1 = <<1, 1>>
  /\ gest.moves = 2
  /\ Len(historyRef) = 1 /\ pushes = 1
  /\ canUndo /\ hasSketch
  /\ bitmap = RectMarks(<<0, 0>>, <<1, 1>>)

C16_ZeroRadiusCircle ==
  (gest.phase = "done" /\ gest.tool = "circle" /\ gest.p0 = gest.p1)
    => bitmap = gest.pre

\* A circle gesture was finalized at its start point after
\* a pointermove away from it had previewed a circle (still the current
\* path).
C16_Witness ==
  /\ gest.phase = "done"
  /\ gest.tool = "circle"
  /\ gest.cap
  /\ gest.p0 = gest.p1
  /\ gest.moves >= 1
  /\ path.marks = ArcMarks(gest.p0, 1)
  /\ bitmap = gest.pre
  /\ ~drawing

\* C17: a tool button makes its tool the selected one and leaves the buffer,
\* the history, canUndo and hasSketch as they were; the selected tool is
\* always one of the four tools.
C17_SelectToolFrame ==
  [][/\ \A t \in Tools :
          SelectTool(t) =>
            /\ selectedTool' = t
            /\ UNCHANGED <<size, bitmap, historyRef, canUndo, hasSketch>>
     /\ selectedTool' \in Tools]_vars

\* The tool was switched on a drawn surface with a non-empty history.
C17_Witness ==
  /\ last = "tool"
  /\ selectedTool = "circle"
  /\ bitmap # {}
  /\ hasSketch
  /\ historyRef # <<>>
  /\ canUndo

\* C18: every pointermove of a freehand gesture, on a canvas with area,
\* strokes the segment from the last point to the new one and leaves the
\* gesture in the Drawing state.
C18_FreehandStaysDrawing ==
  [][\A p \in Points :
       (/\ gest.phase = "open" /\ gest.tool = "freehand" /\ size # 0
        /\ PointerMove(p)) =>
         (drawing' /\ bitmap' = bitmap \cup LineMarks(gest.p1, p))]_vars

\* C19: a switch to another tool in the Drawing state either leaves the
\* gesture going (Drawing, start point, preview snapshot, buffer and hasSketch
\* untouched), or ends it as a pointerup at the last point would: the buffer
\* and hasSketch are those of finalizeDrawing at the last point, the preview
\* snapshot is discarded, the state is Idle.
C19_ToolSwitchMidGesture ==
  [][\A t \in Tools :
       (drawing /\ t # selectedTool /\ SelectTool(t)) =>
         \/ /\ drawing'
            /\ UNCHANGED <<bitmap, hasSketch, startPoint, snapshot>>
         \/ /\ ~drawing'
            /\ snapshot' = NoImage
            /\ bitmap' = FinalBitmap(pointer)
            /\ hasSketch' = FinalHasSketch(pointer)]_vars

\* C20: a freehand gesture without a pointermove (pointerdown, then
\* pointerup/leave/cancel) leaves hasSketch at its pre-gesture value.
C20_FreehandTapKeepsHasContent ==
  (gest.phase = "done" /\ gest.tool = "freehand" /\ gest.moves = 0)
    => hasSketch = gest.preHas

\* C21: from the pointerdown of a shaped-tool gesture through all of its
\* pointermoves hasSketch has its pre-gesture value.
C21_PreviewKeepsHasContent ==
  (gest.phase = "open" /\ gest.tool \in Shaped) => hasSketch = gest.preHas

\* A line gesture on a fresh surface shows its preview after two pointermoves;
\* hasSketch is still false.
C21_Witness ==
  /\ last = "move"
  /\ gest.phase = "open"
  /\ gest.tool = "line"
  /\ gest.cap
  /\ gest.moves >= 2
  /\ bitmap = gest.pre \cup {Seg(gest.p0, gest.p1)}
  /\ bitmap # gest.pre
  /\ ~gest.preHas
  /\ ~hasSketch
  /\ drawing

\* C22: after the finalize of a shaped-tool gesture hasSketch is true if the
\* final point differs from the start point, and has its pre-gesture value if
\* the two are equal.
C22_FinalizeHasContent ==
  (gest.phase = "done" /\ gest.tool \in Shaped)
    => hasSketch = (gest.preHas \/ gest.p0 # gest.p1)

\* C23: an undo on an empty history changes nothing of the surface (buffer,
\* hasSketch, history, gesture) and canUndo is false after it.
C23_UndoOnEmpty ==
  [][(historyRef = <<>> /\ last' = "undo") =>
       /\ UNCHANGED <<size, bitmap, hasSketch, historyRef, drawing, snapshot,
                      startPoint, selectedTool>>
       /\ ~canUndo']_vars

\* Undo was invoked on a drawn surface whose history never held an entry.
C23_Witness ==
  /\ last = "undo"
  /\ pushes = 0
  /\ historyRef = <<>>
  /\ bitmap # {}
  /\ hasSketch
  /\ ~canUndo

\* C24: in the Idle state a pointermove, pointerup, pointerleave or
\* pointercancel changes neither the canvas, nor hasSketch, nor the history,
\* nor the gesture: a second finalize does nothing.
C24_IdleEventsNoOp ==
  [][(~drawing /\ last' \in {"move", "up", "leave", "cancel"}) =>
       UNCHANGED <<size, bitmap, path, hasSketch, selectedTool, canUndo,
                   historyRef, drawing, pointer, startPoint, snapshot,
                   pushes>>]_vars

\* A pointermove arrived in the Idle state, after a gesture that had pushed
\* an entry and left hasSketch false.
C24_Witness ==
  /\ last = "move"
  /\ ~drawing
  /\ ~hasSketch
  /\ gest.phase = "none"
  /\ historyRef # <<>>
  /\ ~captured

\* C25: a clear in the Idle state whose snapshot is captured pushes one entry
\* that holds the buffer and hasSketch of before the clear, on top of the
\* entries there were (without the oldest one if there were 20); after it the
\* buffer is empty, hasSketch is false, canUndo is true and the state is Idle.
C25_ClearInIdle ==
  [][\A ok \in BOOLEAN :
       (~drawing /\ CanCapture(ok) /\ Clear(ok)) =>
         /\ pushes' = pushes + 1
         /\ Previous(historyRef') =
              [imageData |-> [w |-> size, marks |-> bitmap],
               hasSketch |-> hasSketch, seq |-> pushes']
         /\ Pop(historyRef') =
              IF Len(historyRef) = HistoryLimit THEN Tail(historyRef)
              ELSE historyRef
         /\ canUndo'
         /\ bitmap' = {}
         /\ ~hasSketch'
         /\ ~drawing'
         /\ size' = size]_vars

\* A clear in the Idle state has pushed onto a full history: the entry of the
\* first clear, which holds the stroke drawn before it, is now the oldest.
C25_Witness ==
  /\ last = "clear"
  /\ ~drawing
  /\ Len(historyRef) = HistoryLimit
  /\ pushes = HistoryLimit + 1
  /\ historyRef[1].seq = 2
  /\ historyRef[1].imageData.marks # {}
  /\ historyRef[1].hasSketch
  /\ bitmap = {}
  /\ ~hasSketch

\* C26: after a resize the gesture is in the Idle state.
C26_GestureEndsAtResize == (last = "resize") => ~drawing

\* C27: whenever the gesture is Idle and hasSketch is false, nothing is drawn
\* on the buffer.
C27_NoContentMeansEmpty == (~drawing /\ ~hasSketch) => bitmap = {}

\* C28: a request to the edit-history route ends whatever the parent
\* relation is: the walk up visits no id twice, and the walk down pushes no
\* more rows than the user has creations (the walk down goes from a row to
\* the first row that names it as parent, so once a row repeats it repeats
\* for ever).
C28_HistoryTerminates ==
  /\ Cardinality(visited) <= NumIds + 1
  /\ Len(chain) <= NumIds

\* The creations from the root of id down to id, following at most n parents.
RECURSIVE Lineage(_, _)
Lineage(id, n) ==
  IF n = 0 \/ id \notin Ids THEN <<>>
  ELSE Append(Lineage(creations[id], n - 1), id)

\* No creation is its own ancestor, every root has parent null and no two
\* creations have the same parent.
LinearChains ==
  /\ \A id \in Ids : Len(Lineage(id, NumIds + 1)) <= NumIds
  /\ \A id \in Ids : creations[id] # Foreign
  /\ \A a, b \in Ids : (a # b /\ creations[a] = creations[b]) =>
                          creations[a] = NoId

\* C29: on acyclic, linear parent chains the chain of a request answered
\* with 200 begins with the creations from the root down to the requested one,
\* every row of it comes directly after its parent, and no row is repeated.
C29_HistoryIsLineage ==
  (at = "done" /\ status = 200 /\ LinearChains) =>
    LET lineage == Lineage(creationId, NumIds)
    IN /\ Len(chain) >= Len(lineage)
       /\ SubSeq(chain, 1, Len(lineage)) = lineage
       /\ \A i \in 2..Len(chain) : creations[chain[i]] = chain[i - 1]
       /\ \A i, j \in DOMAIN chain : i # j => chain[i] # chain[j]

====
